---- MODULE Spec2Model ----
(***************************************************************************)
(* Line Integral Convolution kernel of src/src/lic.cpp (LICProcessor).     *)
(*                                                                         *)
(* Numbers.  A float is a record [nan, v]: nan is TRUE for NaN, otherwise  *)
(* v is the value in units of 1/SCALE (fixed point).  Vector-field values  *)
(* are drawn from FieldVectors, whose magnitudes are exact in these units, *)
(* so sqrtf and the two divisions of the normalisation are computed        *)
(* exactly; float rounding is not modelled.  A step weight is an integer   *)
(* number of 1/WeightDen units, so that 1.0f - dist/width is exact.        *)
(***************************************************************************)
EXTENDS Integers, Sequences, FiniteSets, TLC

VARIABLES
    vectorXImg,            \* LICProcessor::vectorXImg_ : [bounds, data]
    vectorYImg,            \* LICProcessor::vectorYImg_ : [bounds, data]
    noiseSeed,             \* state of LICProcessor::noise (and frequency)
    num_steps,             \* LICProcessor::num_steps
    use_weight_window,     \* LICProcessor::use_weight_window
    weight_window_width,   \* LICProcessor::weight_window_width
    weight_window_offset,  \* LICProcessor::weight_window_offset
    dstImg,                \* _dstImg : pixel -> <<R, G, B, A>>, or <<>> when never written
    abort,                 \* what _effect.abort() answers
    procWindow,            \* worker -> the procWindow of its multiThreadProcessImages call
    st,                    \* worker -> the locals of its call and its position in it
    wlog,                  \* worker -> the destination pixels it stored to, in order (history)
    polls,                 \* worker -> the rows at which it called abort(), in order (history)
    wq,                    \* last getStepWeight call: [idx, weight]
    sq                     \* last sampleImageData call: [x, y, value]

vars == <<vectorXImg, vectorYImg, noiseSeed, num_steps, use_weight_window,
          weight_window_width, weight_window_offset, dstImg, abort, procWindow,
          st, wlog, polls, wq, sq>>

params == <<num_steps, use_weight_window, weight_window_width, weight_window_offset>>
inputs == <<vectorXImg, vectorYImg, noiseSeed>>

-----------------------------------------------------------------------------
(* Bounds of the model *)

\* num_steps ranges over 1..MaxSteps in the tile specifications
MaxSteps == 3
\* weight_window_width ranges over 1..MaxWidth in the tile specifications
MaxWidth == 2
\* weight_window_offset ranges over -MaxOffset..MaxOffset in the tile specifications
MaxOffset == 1
\* the vector field is FieldW pixels wide (and one pixel high)
FieldW == 2
\* a noise sample is one of 0..NoiseMax, in units of 1/NoiseMax
NoiseMax == 1
\* ranges of the parameters when getStepWeight is checked on its own
WMaxSteps == 5
WMaxWidth == 5
WMaxOffset == 13
\* sampleImageData is checked on coordinates -CoordMax..CoordMax (units of 1/SCALE)
CoordMax == 12
\* and on images of up to ImgMax x ImgMax pixels
ImgMax == 2
\* ranges of the window parameters when the alpha of a pixel is checked:
\* widths MinWidth..AMaxWidth, offsets -AMaxOffset..AMaxOffset
AMaxWidth == 3
AMaxOffset == 8
\* the least weight_window_width the plugin declares (line 434)
MinWidth == 3

\* floor of the square root
Isqrt(m) == CHOOSE r \in 0..m : r * r <= m /\ m < (r + 1) * (r + 1)
\* a direction with integer components and integer length (3-4-5); the fixed-point
\* unit of coordinates and vector components is its length, so that 1.0 is SCALE
\* and the unit vector of the direction is Diag itself
Diag == <<3, 4>>
SCALE == Isqrt(Diag[1] * Diag[1] + Diag[2] * Diag[2])

-----------------------------------------------------------------------------
(* Floats *)

NaN == [nan |-> TRUE, v |-> 0]
Flt(n) == [nan |-> FALSE, v |-> n]
isnan(a) == a.nan
FAdd(a, b) == IF a.nan \/ b.nan THEN NaN ELSE Flt(a.v + b.v)
FSub(a, b) == IF a.nan \/ b.nan THEN NaN ELSE Flt(a.v - b.v)
\* a == 0 and a != 0 of C++: both comparisons are false, resp. true, on NaN
FIsZero(a) == ~a.nan /\ a.v = 0
FNonZero(a) == a.nan \/ a.v # 0

Abs(n) == IF n < 0 THEN -n ELSE n
Min(a, b) == IF a < b THEN a ELSE b
Max(a, b) == IF a > b THEN a ELSE b
\* a % b of C++ (b > 0): the remainder has the sign of the dividend
CRem(a, b) == IF a >= 0 THEN a % b ELSE -((-a) % b)
\* int(x) of C++ on a finite float: truncation toward zero (the kernel never
\* converts a NaN: see NoNaNConversion)
IntOf(a) == IF a.v >= 0 THEN a.v \div SCALE ELSE -((-a.v) \div SCALE)

Rect(x1, y1, x2, y2) == [x1 |-> x1, y1 |-> y1, x2 |-> x2, y2 |-> y2]
PixelsOf(r) == (r.x1 .. r.x2 - 1) \X (r.y1 .. r.y2 - 1)

-----------------------------------------------------------------------------
(* clamp, lines 34-42 *)

\* clamp without its upper bound
clampNoUpper(value, lower, upper) ==
    IF value < lower THEN lower ELSE value

clamp(value, lower, upper) ==
    IF value < lower THEN lower
    ELSE IF value > upper THEN upper
    ELSE value

(* sampleImageData, lines 69-78: the pixel it addresses, and what it returns *)

SampleAddress(img, x, y) ==
    LET x_ == IntOf(x)
        y_ == IntOf(y)
        bounds == img.bounds
    IN <<clamp(x_, bounds.x1, bounds.x2 - 1), clamp(y_, bounds.y1, bounds.y2 - 1)>>

\* a read outside the image would yield an undefined value
sampleImageData(img, x, y) ==
    LET a == SampleAddress(img, x, y)
    IN IF a \in DOMAIN img.data THEN img.data[a] ELSE NaN

(* getStepWeight, lines 80-96, in units of 1/WeightDen *)

WeightDen == IF use_weight_window THEN weight_window_width ELSE 1

\* the distance without the second, wrapped candidate
StepDistNoWrap(signedIdx) ==
    LET N == 2 * num_steps
        idx == CRem(signedIdx + num_steps, N + 1)
        offsetIdx == CRem(weight_window_offset + num_steps, N)
    IN Abs(idx - offsetIdx)

StepDist(signedIdx) ==
    LET N == 2 * num_steps
        idx == CRem(signedIdx + num_steps, N + 1)
        offsetIdx == CRem(weight_window_offset + num_steps, N)
        offsetIdx2 == CRem(weight_window_offset + num_steps, N) + N
    IN Min(Abs(idx - offsetIdx), Abs(idx - offsetIdx2))

getStepWeight(signedIdx) ==
    IF ~use_weight_window THEN 1
    ELSE IF StepDist(signedIdx) > weight_window_width THEN 0
         ELSE weight_window_width - StepDist(signedIdx)

-----------------------------------------------------------------------------
(* sampleRandomData, lines 65-67.  SimplexNoise is not part of the sources: *)
(* the noise is a fixed function of the position into 0..NoiseMax, selected *)
(* by noiseSeed.  On a NaN coordinate the generator converts NaN to int,    *)
(* which is undefined: any sample, or NaN, may come back.                   *)

NoiseValue(x, y) ==
    Flt((noiseSeed + x.v + 3 * y.v + x.v * y.v) % (NoiseMax + 1))

sampleRandomData(x, y) ==
    IF x.nan \/ y.nan THEN {NaN} \cup {Flt(k) : k \in 0..NoiseMax}
    ELSE {NoiseValue(x, y)}

\* weight * value, lines 142, 183, 223: weight is a finite number
FMulW(weight, value) == IF value.nan THEN NaN ELSE Flt(weight * value.v)

(* normalize, lines 167-169 (and 207-209) *)
Normalize(ux, uy) ==
    IF ux.nan \/ uy.nan THEN <<NaN, NaN>>
    ELSE LET umag == Isqrt(ux.v * ux.v + uy.v * uy.v)
         IN IF umag = 0 THEN <<NaN, NaN>>     \* 0/0
            ELSE <<Flt((ux.v * SCALE) \div umag), Flt((uy.v * SCALE) \div umag)>>

-----------------------------------------------------------------------------
(* The locals of one call of multiThreadProcessImages.  trace is history:    *)
(* one entry per noise sample collected for the current pixel (step index,   *)
(* whether and where the field was read, the vector used, the position of    *)
(* the sample, its weight), as the debug output of lines 151 and 189 prints. *)

Idle ==
    [pc |-> "row", y |-> 0, x |-> 0, dstPix |-> <<0, 0>>,
     px0 |-> Flt(0), py0 |-> Flt(0), px |-> Flt(0), py |-> Flt(0),
     ux |-> Flt(0), uy |-> Flt(0),
     ux_initial |-> Flt(0), uy_initial |-> Flt(0),
     ux_last |-> Flt(0), uy_last |-> Flt(0),
     use_last |-> FALSE, i |-> 0,
     acc |-> Flt(0), weightSum |-> 0, trace |-> <<>>]

TraceEntry(idx, sampled, addr, ux, uy, px, py, weight) ==
    [idx |-> idx, sampled |-> sampled, addr |-> addr, ux |-> ux, uy |-> uy,
     px |-> px, py |-> py, weight |-> weight]

(* lines 129-148: the seed sample and the seed vector of pixel (x, y) *)
SeedPixel(s, x, y) ==
    LET px0 == Flt(x * SCALE)
        py0 == Flt(y * SCALE)
        weight == getStepWeight(0)
        value == NoiseValue(px0, py0)
        ux == sampleImageData(vectorXImg, px0, py0)
        uy == sampleImageData(vectorYImg, px0, py0)
    IN [s EXCEPT !.px0 = px0, !.py0 = py0, !.px = px0, !.py = py0,
                 !.acc = FMulW(weight, value), !.weightSum = weight,
                 !.ux = ux, !.uy = uy,
                 !.ux_initial = ux, !.uy_initial = uy,
                 !.ux_last = ux, !.uy_last = uy,
                 !.use_last = FALSE, !.i = 0,
                 !.trace = <<TraceEntry(0, TRUE, SampleAddress(vectorXImg, px0, py0),
                                        ux, uy, px0, py0, weight)>>]

(* line 154: is the seed vector worth integrating *)
\* both components required to be non-zero
SeedValidBoth(s) == FNonZero(s.ux) /\ FNonZero(s.uy)

SeedValid(s) == FNonZero(s.ux) \/ FNonZero(s.uy)

(* lines 238-239: the seed is the null vector *)
\* the seed sample left in acc and weightSum
NullSeedKeep(s) == s

NullSeed(s) == [s EXCEPT !.acc = Flt(0), !.weightSum = 0]

(* line 171: the normalized vector is unusable *)
Degenerate(ux, uy) == isnan(ux) \/ isnan(uy) \/ (FIsZero(ux) /\ FIsZero(uy))

(* lines 171-177: once a vector is unusable the pass keeps the last direction *)
\* the pass not switched to the last direction
LatchNever(use_last, degenerate) == use_last

Latch(use_last, degenerate) == use_last \/ degenerate

(* lines 179-180 and 219-220: px += ux forward, px -= ux backward *)
\* both passes moving forward
AdvanceForwardOnly(p, u, sign) == FAdd(p, u)

Advance(p, u, sign) == IF sign > 0 THEN FAdd(p, u) ELSE FSub(p, u)

(* One iteration of the forward loop (lines 157-191, sign = 1) or of the   *)
(* backward loop (lines 197-231, sign = -1); value is the noise sample     *)
(* taken at the new position.                                              *)
IntegrateStep(s, sign, value) ==
    LET sampled == ~s.use_last
        ux0 == IF sampled THEN sampleImageData(vectorXImg, s.px, s.py) ELSE s.ux_last
        uy0 == IF sampled THEN sampleImageData(vectorYImg, s.px, s.py) ELSE s.uy_last
        n == Normalize(ux0, uy0)
        degenerate == Degenerate(n[1], n[2])
        ux == IF degenerate THEN s.ux_last ELSE n[1]
        uy == IF degenerate THEN s.uy_last ELSE n[2]
        px == Advance(s.px, ux, sign)
        py == Advance(s.py, uy, sign)
        idx == sign * (s.i + 1)
        weight == getStepWeight(idx)
        addr == IF sampled THEN SampleAddress(vectorXImg, s.px, s.py) ELSE <<>>
    IN [s EXCEPT !.use_last = Latch(s.use_last, degenerate),
                 !.ux = ux, !.uy = uy, !.px = px, !.py = py,
                 !.acc = FAdd(s.acc, FMulW(weight, value)),
                 !.weightSum = s.weightSum + weight,
                 !.ux_last = ux, !.uy_last = uy, !.i = s.i + 1,
                 !.trace = Append(s.trace,
                                  TraceEntry(idx, sampled, addr, ux, uy, px, py, weight))]

\* the position at which that iteration samples the noise
StepPosition(s, sign) ==
    LET t == IntegrateStep(s, sign, Flt(0)) IN <<t.px, t.py>>

(* lines 194-196: the backward pass restarts from the seed *)
BeginBackward(s) ==
    [s EXCEPT !.px = s.px0, !.py = s.py0,
              !.ux_last = s.ux_initial, !.uy_last = s.uy_initial,
              !.use_last = FALSE, !.i = 0]

(* lines 242-252: the pixel stored for acc and weightSum.  The value is the *)
(* quotient acc/weightSum, kept as [nan, num, den]; 0/0 is NaN.             *)
Quotient(acc, weightSum) ==
    IF acc.nan \/ (acc.v = 0 /\ weightSum = 0) THEN [nan |-> TRUE, num |-> 0, den |-> 1]
    ELSE [nan |-> FALSE, num |-> acc.v, den |-> weightSum]

ZeroValue == [nan |-> FALSE, num |-> 0, den |-> 1]

\* weightSum < 0.5f, weightSum in units of 1/WeightDen
BelowThreshold(weightSum) == 2 * weightSum < WeightDen

OutputPixel(acc, weightSum) ==
    LET value == IF BelowThreshold(weightSum) THEN ZeroValue
                 ELSE Quotient(acc, weightSum)
        alpha == IF BelowThreshold(weightSum) THEN 0 ELSE 1
    IN <<value, value, value, alpha>>

Transparent == <<ZeroValue, ZeroValue, ZeroValue, 0>>
Unwritten == <<>>

(* The whole computation of pixel (x, y), lines 129-252, on a field without *)
(* undefined vectors (every noise sample is then taken at a finite position) *)
RECURSIVE RunPass(_, _, _)
RunPass(s, sign, k) ==
    IF k = 0 THEN s
    ELSE LET pos == StepPosition(s, sign)
         IN RunPass(IntegrateStep(s, sign, NoiseValue(pos[1], pos[2])), sign, k - 1)

ConvolvePixel(x, y) ==
    LET s0 == SeedPixel(Idle, x, y)
        fwd == RunPass(s0, 1, num_steps)
        bwd == RunPass(BeginBackward(fwd), -1, num_steps)
        end == IF SeedValid(s0) THEN bwd ELSE NullSeed(s0)
    IN OutputPixel(end.acc, end.weightSum)

-----------------------------------------------------------------------------
(* multiThreadProcessImages, lines 120-258, one action per step of a worker *)

Workers == DOMAIN procWindow

(* line 126: dstPix = _dstImg->getPixelAddress(procWindow.x1, y) *)
\* the row started at column 0 instead of the window's first column
RowStartOrigin(pw, y) == <<0, y>>

RowStart(pw, y) == <<pw.x1, y>>

(* lines 123-128: the head of the row loop.  It leaves the loop after the   *)
(* last row, polls abort() otherwise, and enters the row.                   *)
RowPoll(w) ==
    LET s == st[w]
        pw == procWindow[w]
    IN /\ s.pc = "row"
       /\ IF s.y >= pw.y2
          THEN /\ st' = [st EXCEPT ![w].pc = "done"]
               /\ polls' = polls
          ELSE /\ polls' = [polls EXCEPT ![w] = Append(@, s.y)]
               /\ IF abort
                  THEN st' = [st EXCEPT ![w].pc = "done"]
                  ELSE IF pw.x1 < pw.x2
                       THEN st' = [st EXCEPT ![w].dstPix = RowStart(pw, s.y),
                                             ![w].x = pw.x1, ![w].pc = "pixel"]
                       ELSE st' = [st EXCEPT ![w].y = s.y + 1]
       /\ UNCHANGED <<inputs, params, dstImg, abort, procWindow, wlog, wq, sq>>

(* lines 129-156 and 232-240: seed the pixel; integrate unless the seed     *)
(* vector is null                                                           *)
SeedStep(w) ==
    LET s == st[w]
        t == SeedPixel(s, s.x, s.y)
    IN /\ s.pc = "pixel"
       /\ IF SeedValid(t)
          THEN st' = [st EXCEPT ![w] = [t EXCEPT !.pc = "forward"]]
          ELSE st' = [st EXCEPT ![w] = [NullSeed(t) EXCEPT !.pc = "write"]]
       /\ UNCHANGED <<inputs, params, dstImg, abort, procWindow, wlog, polls, wq, sq>>

(* lines 157-196: one forward step; after the last one the backward pass is set up *)
ForwardStep(w) ==
    LET s == st[w]
        pos == StepPosition(s, 1)
    IN /\ s.pc = "forward"
       /\ \E value \in sampleRandomData(pos[1], pos[2]) :
            LET t == IntegrateStep(s, 1, value)
            IN IF t.i < num_steps
               THEN st' = [st EXCEPT ![w] = t]
               ELSE st' = [st EXCEPT ![w] = [BeginBackward(t) EXCEPT !.pc = "backward"]]
       /\ UNCHANGED <<inputs, params, dstImg, abort, procWindow, wlog, polls, wq, sq>>

(* lines 197-231: one backward step *)
BackwardStep(w) ==
    LET s == st[w]
        pos == StepPosition(s, -1)
    IN /\ s.pc = "backward"
       /\ \E value \in sampleRandomData(pos[1], pos[2]) :
            LET t == IntegrateStep(s, -1, value)
            IN IF t.i < num_steps
               THEN st' = [st EXCEPT ![w] = t]
               ELSE st' = [st EXCEPT ![w] = [t EXCEPT !.pc = "write"]]
       /\ UNCHANGED <<inputs, params, dstImg, abort, procWindow, wlog, polls, wq, sq>>

(* lines 255, 128, 123: dstPix += 4, x++, and y++ at the end of the row *)
\* the loop leaving on abort after any pixel
AfterPixelPolling(s, pw) ==
    IF abort THEN [s EXCEPT !.pc = "done"]
    ELSE IF s.x + 1 < pw.x2
         THEN [s EXCEPT !.dstPix = <<s.dstPix[1] + 1, s.dstPix[2]>>,
                        !.x = s.x + 1, !.pc = "pixel"]
         ELSE [s EXCEPT !.dstPix = <<s.dstPix[1] + 1, s.dstPix[2]>>,
                        !.x = s.x + 1, !.y = s.y + 1, !.pc = "row"]

AfterPixel(s, pw) ==
    IF s.x + 1 < pw.x2
    THEN [s EXCEPT !.dstPix = <<s.dstPix[1] + 1, s.dstPix[2]>>,
                   !.x = s.x + 1, !.pc = "pixel"]
    ELSE [s EXCEPT !.dstPix = <<s.dstPix[1] + 1, s.dstPix[2]>>,
                   !.x = s.x + 1, !.y = s.y + 1, !.pc = "row"]

(* lines 242-255: derive value and alpha, store the pixel, move on *)
WritePixel(w) ==
    LET s == st[w]
    IN /\ s.pc = "write"
       /\ dstImg' = [p \in DOMAIN dstImg |->
                        IF p = s.dstPix THEN OutputPixel(s.acc, s.weightSum) ELSE dstImg[p]]
       /\ wlog' = [wlog EXCEPT ![w] = Append(@, s.dstPix)]
       /\ st' = [st EXCEPT ![w] = AfterPixel(s, procWindow[w])]
       /\ UNCHANGED <<inputs, params, abort, procWindow, polls, wq, sq>>

(* the host raises the abort flag, at any moment *)
HostAbort ==
    /\ ~abort
    /\ abort' = TRUE
    /\ UNCHANGED <<inputs, params, dstImg, procWindow, st, wlog, polls, wq, sq>>

-----------------------------------------------------------------------------------------------------------------------------------------------------
(* Inputs *)

\* vectors a field pixel may hold, in units of 1/SCALE: the null vector, (1, 0),
\* twice the unit vector Diag, and an undefined vector
DefinedVectors ==
    { <<Flt(0), Flt(0)>>, <<Flt(SCALE), Flt(0)>>, <<Flt(2 * Diag[1]), Flt(2 * Diag[2])>> }
FieldVectors == DefinedVectors \cup { <<NaN, NaN>> }

FieldBounds == Rect(0, 0, FieldW, 1)
\* the render window: the field and a margin of pixels outside it
RenderWindow == Rect(-1, -1, FieldW + 1, 1)
\* the tiles of two workers: the render window cut at column 1
LeftTile == Rect(-1, -1, 1, 1)
RightTile == Rect(1, -1, FieldW + 1, 1)
DstBounds == Rect(-2, -2, FieldW + 2, 2)

\* the noise functions a run may be given
NoiseSeeds == {0, 1}

NoQuery == [asked |-> FALSE]

InitField(vectors) ==
    \E f \in [PixelsOf(FieldBounds) -> vectors] :
        /\ vectorXImg = [bounds |-> FieldBounds,
                         data |-> [p \in PixelsOf(FieldBounds) |-> f[p][1]]]
        /\ vectorYImg = [bounds |-> FieldBounds,
                         data |-> [p \in PixelsOf(FieldBounds) |-> f[p][2]]]

\* getStepWeight reads width and offset only when use_weight_window is set
\* (lines 81-82); without it they are left at one setting
InitParams ==
    /\ noiseSeed \in NoiseSeeds
    /\ num_steps \in 1..MaxSteps
    /\ use_weight_window \in BOOLEAN
    /\ weight_window_width \in IF use_weight_window THEN 1..MaxWidth ELSE {MaxWidth}
    /\ weight_window_offset \in IF use_weight_window THEN -MaxOffset..MaxOffset ELSE {0}

InitRun(tiles) ==
    /\ procWindow = tiles
    /\ st = [w \in DOMAIN tiles |-> [Idle EXCEPT !.y = tiles[w].y1]]
    /\ wlog = [w \in DOMAIN tiles |-> <<>>]
    /\ polls = [w \in DOMAIN tiles |-> <<>>]
    /\ dstImg = [p \in PixelsOf(DstBounds) |-> Unwritten]
    /\ abort = FALSE
    /\ wq = NoQuery
    /\ sq = NoQuery

Run ==
    \/ \E w \in Workers : RowPoll(w)
    \/ \E w \in Workers : SeedStep(w)
    \/ \E w \in Workers : ForwardStep(w)
    \/ \E w \in Workers : BackwardStep(w)
    \/ \E w \in Workers : WritePixel(w)

(* Spec: one call that renders one pixel, any pixel of the render window,   *)
(* over any field                                                           *)
Init ==
    /\ InitField(FieldVectors)
    /\ InitParams
    /\ \E p \in PixelsOf(RenderWindow) :
          InitRun([w \in {1} |-> Rect(p[1], p[2], p[1] + 1, p[2] + 1)])

Next == Run

Spec == Init /\ [][Next]_vars

(* SpecTile: one call on the whole render window, which the host may abort, *)
(* over any field without undefined vectors                                 *)
InitTile ==
    /\ InitField(DefinedVectors)
    /\ InitParams
    /\ InitRun([w \in {1} |-> RenderWindow])

NextTile == Run \/ HostAbort

SpecTile == InitTile /\ [][NextTile]_vars

(* SpecMT: two workers, each on its own tile of the same destination, over   *)
(* any field without undefined vectors, never aborted                        *)
InitMT ==
    /\ InitField(DefinedVectors)
    /\ noiseSeed \in NoiseSeeds
    /\ num_steps \in 1..MaxSteps
    /\ use_weight_window \in BOOLEAN
    /\ weight_window_width = MaxWidth
    /\ weight_window_offset = 0
    /\ InitRun([w \in {1, 2} |-> IF w = 1 THEN LeftTile ELSE RightTile])

SpecMT == InitMT /\ [][Run]_vars

-----------------------------------------------------------------------------
(* SpecWeight: getStepWeight on its own, over the step indices              *)
(* -num_steps..num_steps the kernel passes to it (lines 141, 182, 222)      *)

Quiet ==
    /\ vectorXImg = [bounds |-> FieldBounds,
                     data |-> [p \in PixelsOf(FieldBounds) |-> Flt(0)]]
    /\ vectorYImg = vectorXImg
    /\ noiseSeed = 0
    /\ procWindow = <<>>
    /\ st = <<>>
    /\ wlog = <<>>
    /\ polls = <<>>
    /\ dstImg = <<>>
    /\ abort = FALSE

InitWeight ==
    /\ Quiet
    /\ num_steps \in 1..WMaxSteps
    /\ use_weight_window \in BOOLEAN
    /\ weight_window_width \in 1..WMaxWidth
    /\ weight_window_offset \in -WMaxOffset..WMaxOffset
    /\ wq = NoQuery
    /\ sq = NoQuery

WeightQuery ==
    /\ \E signedIdx \in -num_steps..num_steps :
          wq' = [asked |-> TRUE, idx |-> signedIdx, weight |-> getStepWeight(signedIdx)]
    /\ UNCHANGED <<inputs, params, dstImg, abort, procWindow, st, wlog, polls, sq>>

SpecWeight == InitWeight /\ [][WeightQuery]_vars

(* SpecSample: sampleImageData on its own.  Every pixel of the image stores  *)
(* a value of its own, so that the value returned tells the pixel read.      *)

OwnValue(p) == Flt(100 * p[1] + p[2])

InitSample ==
    /\ \E x1 \in -1..1, y1 \in -1..1, w \in 1..ImgMax, h \in 1..ImgMax :
          LET b == Rect(x1, y1, x1 + w, y1 + h)
          IN vectorXImg = [bounds |-> b, data |-> [p \in PixelsOf(b) |-> OwnValue(p)]]
    /\ vectorYImg = vectorXImg
    /\ noiseSeed = 0
    /\ num_steps = 1
    /\ use_weight_window = FALSE
    /\ weight_window_width = 1
    /\ weight_window_offset = 0
    /\ procWindow = <<>>
    /\ st = <<>>
    /\ wlog = <<>>
    /\ polls = <<>>
    /\ dstImg = <<>>
    /\ abort = FALSE
    /\ wq = NoQuery
    /\ sq = NoQuery

SampleQuery ==
    /\ \E x \in -CoordMax..CoordMax, y \in -CoordMax..CoordMax :
          sq' = [asked |-> TRUE, x |-> Flt(x), y |-> Flt(y),
                 value |-> sampleImageData(vectorXImg, Flt(x), Flt(y))]
    /\ UNCHANGED <<inputs, params, dstImg, abort, procWindow, st, wlog, polls, wq>>

SpecSample == InitSample /\ [][SampleQuery]_vars

-----------------------------------------------------------------------------
(* Claims about getStepWeight *)

\* the circular distance between i and c modulo n: min over k of |i - c - k*n|
CircDist(i, c, n) == Min((i - c) % n, n - ((i - c) % n))

\* C2 (as claimed): with the weight window on, getStepWeight(i) is
\* max(0, 1 - d/w), d the circular distance between i and the offset modulo
\* 2*num_steps.  In units of 1/w: max(0, w - d).
C2_WeightIsCircularFalloff ==
    (wq.asked /\ use_weight_window) =>
        wq.weight = Max(0, weight_window_width
                           - CircDist(wq.idx, weight_window_offset, 2 * num_steps))

\* C3: with the weight window on, getStepWeight(i) is 0 whenever the circular
\* distance from i to the offset modulo 2*num_steps exceeds the width, and is
\* exactly 1 (w units of 1/w) whenever that distance is 0.
C3_ZeroBeyondWidthOneAtCentre ==
    (wq.asked /\ use_weight_window) =>
        LET d == CircDist(wq.idx, weight_window_offset, 2 * num_steps)
        IN /\ (d > weight_window_width => wq.weight = 0)
           /\ (d = 0 => wq.weight = weight_window_width)

\* C3 witness: a step at circular distance 0 from a negative offset whose C++
\* remainder is negative gets weight 1
C3_Witness ==
    /\ wq.asked /\ use_weight_window
    /\ weight_window_offset + num_steps < 0
    /\ CRem(weight_window_offset + num_steps, 2 * num_steps) < 0
    /\ CircDist(wq.idx, weight_window_offset, 2 * num_steps) = 0
    /\ wq.weight = weight_window_width

-----------------------------------------------------------------------------
(* Claims about sampleImageData *)

\* the integer nearest to a coordinate (SCALE is odd: no coordinate is half-way)
Nearest(a) == (2 * a.v + SCALE) \div (2 * SCALE)

\* C7 (as claimed): sampleImageData returns the value stored at the pixel
\* nearest to (x, y), each coordinate rounded to the nearest integer and
\* clamped on its own into the bounds of the image.
C7_SamplesNearestPixel ==
    sq.asked =>
        LET b == vectorXImg.bounds
        IN sq.value = vectorXImg.data[<<clamp(Nearest(sq.x), b.x1, b.x2 - 1),
                                        clamp(Nearest(sq.y), b.y1, b.y2 - 1)>>]

-----------------------------------------------------------------------------
(* Claims about one pixel *)

\* the vector sampled at the pixel's own coordinates
SeedVector(p) ==
    <<sampleImageData(vectorXImg, Flt(p[1] * SCALE), Flt(p[2] * SCALE)),
      sampleImageData(vectorYImg, Flt(p[1] * SCALE), Flt(p[2] * SCALE))>>

Written(p) == dstImg[p] # Unwritten
NullVector(u) == FIsZero(u[1]) /\ FIsZero(u[2])
NaNVector(u) == isnan(u[1]) \/ isnan(u[2])

\* C1: a written pixel whose seed vector is zero in both components holds
\* (0, 0, 0, 0), whatever the noise and the parameters.
C1_NullSeedIsTransparent ==
    \A p \in DOMAIN dstImg :
        (Written(p) /\ NullVector(SeedVector(p))) => dstImg[p] = Transparent

\* C1 witness: such a pixel is written with the weight window on, where the
\* seed sample and its weight are both non-zero
C1_Witness ==
    \E p \in DOMAIN dstImg :
        /\ Written(p) /\ NullVector(SeedVector(p))
        /\ use_weight_window /\ getStepWeight(0) > 0
        /\ NoiseValue(Flt(p[1] * SCALE), Flt(p[2] * SCALE)).v > 0

\* C6 (as claimed): a written pixel is (v, v, v, 1) with v not NaN, or it is
\* (0, 0, 0, 0); and a pixel whose seed vector is NaN is masked like one whose
\* seed vector is zero.
C6_DegeneraciesOnlyMask ==
    \A p \in DOMAIN dstImg :
        Written(p) =>
            /\ \/ dstImg[p] = Transparent
               \/ /\ dstImg[p][4] = 1
                  /\ ~dstImg[p][1].nan
                  /\ dstImg[p][2] = dstImg[p][1] /\ dstImg[p][3] = dstImg[p][1]
            /\ NaNVector(SeedVector(p)) => dstImg[p] = Transparent

\* sampleImageData is never given a NaN coordinate: a pass whose position is
\* NaN is frozen and does not read the field
NoNaNConversion ==
    \A w \in Workers :
        (st[w].pc \in {"forward", "backward"} /\ ~st[w].use_last) =>
            ~st[w].px.nan /\ ~st[w].py.nan

\* C8: every read of the vector field made for a pixel (the seed read and the
\* read of each step of both passes) addresses a pixel inside the field's bounds.
C8_ReadsInsideBounds ==
    \A w \in Workers :
        \A j \in 1..Len(st[w].trace) :
            st[w].trace[j].sampled =>
                /\ st[w].trace[j].addr \in PixelsOf(vectorXImg.bounds)
                /\ st[w].trace[j].addr \in PixelsOf(vectorYImg.bounds)

\* C8 witness: a step read the field from a position outside the bounds, on a
\* field holding a null and an undefined vector, for a pixel outside the field
C8_Witness ==
    \E w \in Workers :
        /\ st[w].pc = "write"
        /\ <<st[w].x, st[w].y>> \notin PixelsOf(vectorXImg.bounds)
        /\ \E p, q \in PixelsOf(vectorXImg.bounds) :
              /\ NullVector(<<vectorXImg.data[p], vectorYImg.data[p]>>)
              /\ NaNVector(<<vectorXImg.data[q], vectorYImg.data[q]>>)
        /\ \E j \in 2..Len(st[w].trace) :
              /\ st[w].trace[j].sampled
              /\ IntOf(st[w].trace[j - 1].px) >= vectorXImg.bounds.x2
              /\ st[w].trace[j].addr[1] = vectorXImg.bounds.x2 - 1

\* the field holds (1, 0) everywhere
UniformField ==
    \A p \in PixelsOf(vectorXImg.bounds) :
        vectorXImg.data[p] = Flt(SCALE) /\ vectorYImg.data[p] = Flt(0)

\* the sum of the noise samples at (x + k, y), k = lo..hi
RECURSIVE NoiseSum(_, _, _, _)
NoiseSum(x, y, lo, hi) ==
    IF lo > hi THEN 0
    ELSE NoiseValue(Flt((x + lo) * SCALE), Flt(y * SCALE)).v + NoiseSum(x, y, lo + 1, hi)

\* C4: without the weight window and on the uniform field (1, 0), the pixel
\* (x, y) collects exactly 2*num_steps + 1 noise samples, at (x + k, y) for
\* k = -num_steps..num_steps, each of weight 1, and stores their mean with alpha 1.
C4_UniformFieldAveragesRow ==
    (UniformField /\ ~use_weight_window) =>
        /\ \A w \in Workers :
              st[w].pc = "write" =>
                 LET T == st[w].trace
                 IN /\ Len(T) = 2 * num_steps + 1
                    /\ \A j \in 1..Len(T) : T[j].weight = 1 /\ T[j].py = Flt(st[w].y * SCALE)
                    /\ \A k \in -num_steps..num_steps :
                          Cardinality({j \in 1..Len(T) :
                                          T[j].px = Flt((st[w].x + k) * SCALE)}) = 1
        /\ \A p \in DOMAIN dstImg :
              Written(p) =>
                 LET v == [nan |-> FALSE,
                           num |-> NoiseSum(p[1], p[2], -num_steps, num_steps),
                           den |-> 2 * num_steps + 1]
                 IN dstImg[p] = <<v, v, v, 1>>

\* C4 witness: such a pixel is stored, with three steps a side and a non-zero mean
C4_Witness ==
    /\ UniformField /\ ~use_weight_window /\ num_steps >= 3
    /\ \E p \in DOMAIN dstImg : Written(p) /\ dstImg[p][1].num > 0

\* what the field holds where a step read it
RawAt(e) == <<vectorXImg.data[e.addr], vectorYImg.data[e.addr]>>
\* the step read a null or an undefined vector
DegenerateSample(e) == e.sampled /\ (NullVector(RawAt(e)) \/ NaNVector(RawAt(e)))
ValidSeed(T) ==
    Len(T) >= 1 /\ ~NullVector(<<T[1].ux, T[1].uy>>) /\ ~NaNVector(<<T[1].ux, T[1].uy>>)
SamePass(a, b) == a.idx * b.idx > 0
IsUnit(ux, uy) == ~ux.nan /\ ~uy.nan /\ ux.v * ux.v + uy.v * uy.v = SCALE * SCALE
\* the step moved from the position of e0 by the vector (ux, uy), forward or backward
MovedBy(e0, e, ux, uy) ==
    IF e.idx > 0 THEN e.px = FAdd(e0.px, ux) /\ e.py = FAdd(e0.py, uy)
    ELSE e.px = FSub(e0.px, ux) /\ e.py = FSub(e0.py, uy)

-----------------------------------------------------------------------------
(* Claims about the tile loop *)

Width(pw) == pw.x2 - pw.x1
Height(pw) == pw.y2 - pw.y1
\* the j-th pixel of a tile, rows in ascending order and columns in ascending
\* order within a row
RowMajor(pw, j) == <<pw.x1 + ((j - 1) % Width(pw)), pw.y1 + ((j - 1) \div Width(pw))>>

\* C9: the loop polls abort once per row, rows ascending, before the row's
\* first pixel; it stores pixels rows ascending and columns ascending; a row
\* whose poll saw no abort is stored completely; and when the loop has stopped
\* the stored pixels are exactly the complete rows y1..k-1 for some k, no pixel
\* of the row whose poll saw abort or of a later row being stored.
C9_AbortAtRowGranularity ==
    \A w \in Workers :
        LET pw == procWindow[w]
            rows == Len(polls[w])
            stored == Len(wlog[w])
        IN /\ \A j \in 1..rows : polls[w][j] = pw.y1 + j - 1
           /\ \A j \in 1..stored : wlog[w][j] = RowMajor(pw, j)
           /\ stored <= rows * Width(pw)
           /\ rows >= 1 => stored >= (rows - 1) * Width(pw)
           /\ \A p \in DOMAIN dstImg : Written(p) <=> \E j \in 1..stored : wlog[w][j] = p
           /\ st[w].pc \in {"pixel", "forward", "backward", "write"} =>
                 /\ rows = st[w].y - pw.y1 + 1
                 /\ stored = (rows - 1) * Width(pw) + (st[w].x - pw.x1)
           /\ st[w].pc = "done" =>
                 \E k \in 0..Height(pw) :
                    /\ stored = k * Width(pw)
                    /\ rows = IF k = Height(pw) THEN k ELSE k + 1
                    /\ k < Height(pw) => abort

\* C9 witness: abort was raised while the first row was being computed; the
\* row was completed and the loop stopped at the poll of the second row
C9_Witness ==
    \E w \in Workers :
        /\ st[w].pc = "done" /\ abort
        /\ Len(wlog[w]) = Width(procWindow[w])
        /\ Len(polls[w]) = 2
        /\ Height(procWindow[w]) >= 2 /\ Width(procWindow[w]) >= 2

-----------------------------------------------------------------------------
(* Claims about concurrent workers *)

AllDone == \A w \in Workers : st[w].pc = "done"
Tiles == UNION {PixelsOf(procWindow[w]) : w \in Workers}

\* what holds of the destination d, the stores l and the positions s of a
\* concurrent run
MTState(d, l, s) ==
    /\ \A w \in Workers :
          /\ \A j \in 1..Len(l[w]) : l[w][j] \in PixelsOf(procWindow[w])
          /\ \A j, k \in 1..Len(l[w]) : l[w][j] = l[w][k] => j = k
    /\ \A p \in DOMAIN d : d[p] # Unwritten => p \in Tiles
    /\ (\A w \in Workers : s[w].pc = "done") =>
          /\ \A w \in Workers : {l[w][j] : j \in 1..Len(l[w])} = PixelsOf(procWindow[w])
          /\ \A p \in Tiles : d[p] = ConvolvePixel(p[1], p[2])

\* what a step of a concurrent run may change: the locals and history of one
\* worker, and destination pixels of that worker's tile
MTStep ==
    /\ UNCHANGED <<inputs, params, procWindow, abort>>
    /\ \E w \in Workers :
          /\ \A v \in Workers \ {w} :
                st'[v] = st[v] /\ wlog'[v] = wlog[v] /\ polls'[v] = polls[v]
          /\ \A p \in DOMAIN dstImg :
                dstImg'[p] # dstImg[p] => p \in PixelsOf(procWindow[w]) /\ ~Written(p)

\* C10: workers on pairwise disjoint tiles of one destination, with no abort:
\* each pixel of the tiles is stored exactly once, by the worker owning its
\* tile; no pixel outside the tiles is stored; a worker's step changes nothing
\* that another worker reads or writes (the field, the noise, the parameters,
\* the other worker's locals and pixels); and the final image is the one the
\* tiles give when processed one after the other.  The step leaves the inputs
\* unchanged, so the state it leads to is compared with their pixels as
\* computed before the step.
C10_DisjointTilesAreIndependent ==
    [][MTStep /\ MTState(dstImg', wlog', st')]_vars

\* C10 witness: both workers have finished and every pixel of both tiles is stored
C10_Witness ==
    /\ Cardinality(Workers) = 2 /\ AllDone /\ ~abort
    /\ \A p \in Tiles : Written(p)
    /\ \E p \in PixelsOf(procWindow[1]), q \in PixelsOf(procWindow[2]) :
          dstImg[p][4] = 1 /\ dstImg[q][4] = 1 /\ dstImg[p] # dstImg[q]

-----------------------------------------------------------------------------
(* SpecAlpha: one call that renders one pixel, inside the field or in the    *)
(* margin left or right of it, over any field, with the weight window        *)
(* parameters in the ranges the plugin declares (lines 415-443), cut at the  *)
(* bounds                                                                    *)

AlphaWindow == Rect(-1, 0, FieldW + 1, 1)

InitAlpha ==
    /\ InitField(FieldVectors)
    /\ noiseSeed = 0
    /\ num_steps \in 1..MaxSteps
    /\ use_weight_window \in BOOLEAN
    /\ weight_window_width \in IF use_weight_window THEN MinWidth..AMaxWidth ELSE {MinWidth}
    /\ weight_window_offset \in IF use_weight_window THEN -AMaxOffset..AMaxOffset ELSE {0}
    /\ \E p \in PixelsOf(AlphaWindow) :
          InitRun([w \in {1} |-> Rect(p[1], p[2], p[1] + 1, p[2] + 1)])

SpecAlpha == InitAlpha /\ [][Run]_vars

\* the sum of getStepWeight(i) over i = lo..hi, in units of 1/WeightDen
RECURSIVE WeightTotal(_, _)
WeightTotal(lo, hi) ==
    IF lo > hi THEN 0 ELSE getStepWeight(lo) + WeightTotal(lo + 1, hi)

====
